---- MODULE Spec2Model ----
(***************************************************************************)
(* The call-session controller of src/app/page.tsx (component Home):       *)
(* the React state, the refs, the pending setTimeout / setInterval timers  *)
(* and the handlers that run to completion on the browser's event loop.    *)
(* Time is counted in ticks of TickMs milliseconds; every delay of the     *)
(* source is a whole number of ticks.                                      *)
(***************************************************************************)
EXTENDS Integers, Sequences, FiniteSets, TLC

VARIABLES
    callStatus,     \* useState<CallStatus>('idle')            (line 15)
    messages,       \* useState<Message[]>([])                 (line 16)
    isRecording,    \* useState(false)                         (line 17)
    transcript,     \* useState('')                            (line 18)
    callDuration,   \* useState(0)                             (line 19)
    hasRecognition, \* recognitionRef.current is non-null      (lines 20, 28-30)
    recRunning,     \* the SpeechRecognition object is started (start()/stop())
    timerRef,       \* timerRef.current: an interval id, 0 for null (line 22)
    intervals,      \* live setInterval timers, in creation order
    timeouts,       \* pending setTimeout callbacks, in creation order
    errorLog,       \* number of console.error lines written   (line 56)
    probe           \* a stand-alone evaluation of the pure helpers

vars == <<callStatus, messages, isRecording, transcript, callDuration,
          hasRecognition, recRunning, timerRef, intervals,
          timeouts, errorLog, probe>>

(* The React state and the timers, i.e. everything but the console. *)
sessionVars == <<callStatus, messages, isRecording, transcript, callDuration,
                 hasRecognition, recRunning, timerRef, intervals,
                 timeouts>>

-----------------------------------------------------------------------------
(* Bounds of the model. *)
MaxMsgs == 5        \* messages plus replies still to come
MaxIntervals == 2   \* live intervals plus connects still to come
MaxTimeouts == 2    \* pending setTimeout callbacks
MaxDuration == 2    \* callDuration is not counted beyond this
MaxErrors == 1      \* console.error lines counted
MaxResults == 2     \* results carried by one onresult event
MaxDay == 1         \* calendar days the clock ranges over
MaxSec == 1         \* seconds of the day the clock ranges over
MaxSeconds == 6000  \* call durations handed to formatDuration

(* Delays of the source, in milliseconds. *)
TickMs == 500
ConnectDelay == 1500
EndDelay == 2000
ReplyDelay == 500
IntervalPeriod == 1000

Ticks(ms) == ms \div TickMs

-----------------------------------------------------------------------------
(* Strings. TLC gives Len, \o and SubSeq on strings. *)

UpperAlpha == "ABCDEFGHIJKLMNOPQRSTUVWXYZ"
LowerAlpha == "abcdefghijklmnopqrstuvwxyz"
Digits == "0123456789"

CharAt(s, i) == SubSeq(s, i, i)

toLowerChar(c) ==
    IF \E i \in 1..Len(UpperAlpha) : CharAt(UpperAlpha, i) = c
    THEN CharAt(LowerAlpha, CHOOSE i \in 1..Len(UpperAlpha) : CharAt(UpperAlpha, i) = c)
    ELSE c

RECURSIVE toLowerCase(_)
toLowerCase(s) ==
    IF Len(s) = 0 THEN ""
    ELSE toLowerChar(CharAt(s, 1)) \o toLowerCase(SubSeq(s, 2, Len(s)))

includes(s, k) ==
    \E i \in 1..(Len(s) - Len(k) + 1) : SubSeq(s, i, i + Len(k) - 1) = k

RECURSIVE trimStart(_)
trimStart(s) ==
    IF Len(s) > 0 /\ CharAt(s, 1) = " " THEN trimStart(SubSeq(s, 2, Len(s))) ELSE s

RECURSIVE trimEnd(_)
trimEnd(s) ==
    IF Len(s) > 0 /\ CharAt(s, Len(s)) = " " THEN trimEnd(SubSeq(s, 1, Len(s) - 1)) ELSE s

trim(s) == trimEnd(trimStart(s))

RECURSIVE NatToString(_)
NatToString(n) ==
    IF n < 10 THEN CharAt(Digits, n + 1)
    ELSE NatToString(n \div 10) \o CharAt(Digits, (n % 10) + 1)

RECURSIVE padStart(_, _, _)
padStart(s, width, fill) ==
    IF Len(s) >= width THEN s ELSE padStart(fill \o s, width, fill)

-----------------------------------------------------------------------------
(* The clock read by `new Date()`: a calendar day (counted from the epoch, *)
(* a Thursday) and a second of that day.                                   *)
Clock == [day : 0..MaxDay, sec : 0..MaxSec]

Weekdays == <<"Thursday", "Friday", "Saturday", "Sunday", "Monday", "Tuesday", "Wednesday">>

(* now.toLocaleTimeString(): hour, minute and second of the day, 12-hour clock. *)
toLocaleTimeString(now) ==
    LET h24 == now.sec \div 3600
        h12 == IF h24 % 12 = 0 THEN 12 ELSE h24 % 12
        m   == (now.sec \div 60) % 60
        s   == now.sec % 60
    IN  NatToString(h12) \o ":" \o padStart(NatToString(m), 2, "0") \o ":"
          \o padStart(NatToString(s), 2, "0") \o (IF h24 < 12 THEN " AM" ELSE " PM")

(* now.toLocaleDateString('en-US', {weekday:'long', year:'numeric',        *)
(* month:'long', day:'numeric'}), for the days of the first month.         *)
toLocaleDateString(now) ==
    Weekdays[(now.day % 7) + 1] \o ", January " \o NatToString(now.day + 1) \o ", 1970"

GreetingReply == "Hello! It's great to hear from you. What can I assist you with?"
WellBeingReply == "I'm functioning perfectly, thank you for asking! How can I help you today?"
AppointmentReply == "I can help you schedule an appointment. What date and time works best for you?"
WeatherReply == "I can help with weather information. Which location are you interested in?"
HelpReply == "I'm here to assist you with scheduling appointments, answering questions, or providing information. What do you need?"
ThanksReply == "You're very welcome! Is there anything else I can help you with?"
FarewellReply == "Goodbye! Have a wonderful day. Feel free to call again anytime!"
IdentityReply == "I'm an AI calling agent designed to assist you with various tasks and inquiries."
TimeReply(now) == "The current time is " \o toLocaleTimeString(now) \o "."
DateReply(now) == "Today is " \o toLocaleDateString(now) \o "."
FallbackReply == "I understand. Could you tell me more about what you need assistance with?"

(* generateResponse with the farewell rule tried before the thanks rule. *)
generateResponseFarewellFirst(userInput, now) ==
    LET input == toLowerCase(userInput) IN
    IF includes(input, "hello") \/ includes(input, "hi") THEN GreetingReply
    ELSE IF includes(input, "how are you") THEN WellBeingReply
    ELSE IF includes(input, "appointment") \/ includes(input, "schedule") THEN AppointmentReply
    ELSE IF includes(input, "weather") THEN WeatherReply
    ELSE IF includes(input, "help") THEN HelpReply
    ELSE IF includes(input, "bye") \/ includes(input, "goodbye") THEN FarewellReply
    ELSE IF includes(input, "thank") THEN ThanksReply
    ELSE IF includes(input, "name") THEN IdentityReply
    ELSE IF includes(input, "time") THEN TimeReply(now)
    ELSE IF includes(input, "date") THEN DateReply(now)
    ELSE FallbackReply

(* generateResponse with the fallback stamped with the time of day. *)
generateResponseStampedFallback(userInput, now) ==
    LET input == toLowerCase(userInput) IN
    IF includes(input, "hello") \/ includes(input, "hi") THEN GreetingReply
    ELSE IF includes(input, "how are you") THEN WellBeingReply
    ELSE IF includes(input, "appointment") \/ includes(input, "schedule") THEN AppointmentReply
    ELSE IF includes(input, "weather") THEN WeatherReply
    ELSE IF includes(input, "help") THEN HelpReply
    ELSE IF includes(input, "thank") THEN ThanksReply
    ELSE IF includes(input, "bye") \/ includes(input, "goodbye") THEN FarewellReply
    ELSE IF includes(input, "name") THEN IdentityReply
    ELSE IF includes(input, "time") THEN TimeReply(now)
    ELSE IF includes(input, "date") THEN DateReply(now)
    ELSE FallbackReply \o " (" \o toLocaleTimeString(now) \o ")"

(* generateResponse, lines 127-164; `now` is the value `new Date()` gives  *)
(* at the moment of the call.                                              *)
generateResponse(userInput, now) ==
    LET input == toLowerCase(userInput) IN
    IF includes(input, "hello") \/ includes(input, "hi") THEN GreetingReply
    ELSE IF includes(input, "how are you") THEN WellBeingReply
    ELSE IF includes(input, "appointment") \/ includes(input, "schedule") THEN AppointmentReply
    ELSE IF includes(input, "weather") THEN WeatherReply
    ELSE IF includes(input, "help") THEN HelpReply
    ELSE IF includes(input, "thank") THEN ThanksReply
    ELSE IF includes(input, "bye") \/ includes(input, "goodbye") THEN FarewellReply
    ELSE IF includes(input, "name") THEN IdentityReply
    ELSE IF includes(input, "time") THEN TimeReply(now)
    ELSE IF includes(input, "date") THEN DateReply(now)
    ELSE FallbackReply

(* A duration format that rolls minutes over into hours. *)
formatDurationWithHours(seconds) ==
    LET mins == seconds \div 60
        secs == seconds % 60
    IN  IF mins < 60
        THEN padStart(NatToString(mins), 2, "0") \o ":" \o padStart(NatToString(secs), 2, "0")
        ELSE padStart(NatToString(mins \div 60), 2, "0") \o ":"
               \o padStart(NatToString(mins % 60), 2, "0") \o ":"
               \o padStart(NatToString(secs), 2, "0")

(* formatDuration, lines 177-181. *)
formatDuration(seconds) ==
    LET mins == seconds \div 60
        secs == seconds % 60
    IN  padStart(NatToString(mins), 2, "0") \o ":" \o padStart(NatToString(secs), 2, "0")

-----------------------------------------------------------------------------
(* The session. *)

Greeting == "Hello! I'm your AI calling agent. How can I help you today?"

(* A Message, lines 6-10, without its timestamp. *)
Message(role, content) == [role |-> role, content |-> content]

(* Phrases the recognizer reports in the session model. *)
Phrases == {" Hi"}

(* event.results[resultIndex ..], each with its first alternative. *)
Results == [transcript : Phrases, isFinal : BOOLEAN]
Events == UNION {[1..n -> Results] : n \in 1..MaxResults}

Timeout(kind, delay, text) == [kind |-> kind, left |-> Ticks(delay), text |-> text]

Pending(kind) == Cardinality({i \in DOMAIN timeouts : timeouts[i].kind = kind})

Remove(seq, i) == SubSeq(seq, 1, i - 1) \o SubSeq(seq, i + 1, Len(seq))

(* setInterval returns an id that no live timer has; ids are positive. *)
FreshId == CHOOSE n \in 1..(Len(intervals) + 1) : \A i \in DOMAIN intervals : intervals[i].id # n

Epoch == [day |-> 0, sec |-> 0]

(* A stand-alone evaluation of generateResponse: the text, the clock, the  *)
(* last two replies with the clock values they were computed at, and how   *)
(* many of the two are there.                                              *)
NoProbe == [text |-> "", now |-> Epoch, evals |-> 0,
            out |-> "", outAt |-> Epoch, prevOut |-> "", prevAt |-> Epoch]

Init ==
    /\ callStatus = "idle"
    /\ messages = <<>>
    /\ isRecording = FALSE
    /\ transcript = ""
    /\ callDuration = 0
    /\ hasRecognition \in BOOLEAN
    /\ recRunning = FALSE
    /\ timerRef = 0
    /\ intervals = <<>>
    /\ timeouts = <<>>
    /\ errorLog = 0
    /\ probe = NoProbe

(* setMessages(prev => [...prev, {role, content, timestamp}]), lines 112-114. *)
addMessage(prev, role, content) == Append(prev, Message(role, content))

(* startCall, lines 71-91 up to the setTimeout; the button of lines 204-209 *)
(* offers it only while the status is idle.                                 *)
StartCall ==
    /\ callStatus = "idle"
    /\ Len(timeouts) < MaxTimeouts
    /\ Len(intervals) + Pending("connect") < MaxIntervals
    /\ callStatus' = "connecting"
    /\ timeouts' = Append(timeouts, Timeout("connect", ConnectDelay, ""))
    /\ UNCHANGED <<messages, isRecording, transcript, callDuration, hasRecognition,
                   recRunning, timerRef, intervals, errorLog, probe>>

(* A connect callback that starts listening without looking at recognitionRef. *)
ConnectCallbackAlwaysRecords ==
    /\ callStatus' = "active"
    /\ messages' = addMessage(<<>>, "assistant", Greeting)
    /\ callDuration' = 0
    /\ intervals' = Append(intervals, [id |-> FreshId, left |-> Ticks(IntervalPeriod)])
    /\ timerRef' = FreshId
    /\ recRunning' = hasRecognition
    /\ isRecording' = TRUE
    /\ UNCHANGED <<transcript, hasRecognition, errorLog, probe>>

(* The callback of startCall's setTimeout, lines 73-90. start() on a        *)
(* recognizer that is already started throws, which skips setIsRecording.   *)
ConnectCallback ==
    /\ callStatus' = "active"
    /\ messages' = addMessage(<<>>, "assistant", Greeting)
    /\ callDuration' = 0
    /\ intervals' = Append(intervals, [id |-> FreshId, left |-> Ticks(IntervalPeriod)])
    /\ timerRef' = FreshId
    /\ IF hasRecognition
       THEN /\ recRunning' = TRUE
            /\ isRecording' = (IF recRunning THEN isRecording ELSE TRUE)
       ELSE UNCHANGED <<recRunning, isRecording>>
    /\ UNCHANGED <<transcript, hasRecognition, errorLog, probe>>

(* endCall, lines 93-110; the button of lines 211-216 offers it only while  *)
(* the status is connecting or active.                                      *)
EndCall ==
    /\ callStatus \in {"connecting", "active"}
    /\ Len(timeouts) < MaxTimeouts
    /\ IF hasRecognition
       THEN recRunning' = FALSE /\ isRecording' = FALSE
       ELSE UNCHANGED <<recRunning, isRecording>>
    /\ IF timerRef # 0
       THEN /\ intervals' = SelectSeq(intervals, LAMBDA t : t.id # timerRef)
            /\ timerRef' = 0
       ELSE UNCHANGED <<intervals, timerRef>>
    /\ callStatus' = "ended"
    /\ timeouts' = Append(timeouts, Timeout("end", EndDelay, ""))
    /\ UNCHANGED <<messages, transcript, callDuration, hasRecognition, errorLog, probe>>

(* An end callback that clears the transcript but leaves the status alone. *)
EndCallbackKeepsStatus ==
    /\ transcript' = ""
    /\ UNCHANGED <<callStatus, messages, isRecording, callDuration, hasRecognition,
                   recRunning, timerRef, intervals, errorLog, probe>>

(* The callback of endCall's setTimeout, lines 106-109. *)
EndCallback ==
    /\ callStatus' = "idle"
    /\ transcript' = ""
    /\ UNCHANGED <<messages, isRecording, callDuration, hasRecognition, recRunning,
                   timerRef, intervals, errorLog, probe>>

(* A reply callback that drops the reply once the call is no longer active. *)
ReplyCallbackIfActive(text) ==
    \E now \in Clock :
        LET response == generateResponse(text, now) IN
        /\ messages' = (IF callStatus = "active"
                        THEN addMessage(messages, "assistant", response)
                        ELSE messages)
        /\ UNCHANGED <<callStatus, isRecording, transcript, callDuration, hasRecognition,
                       recRunning, timerRef, intervals, errorLog, probe>>

(* The callback of handleUserSpeech's setTimeout, lines 120-124. *)
ReplyCallback(text) ==
    \E now \in Clock :
        LET response == generateResponse(text, now) IN
        /\ messages' = addMessage(messages, "assistant", response)
        /\ UNCHANGED <<callStatus, isRecording, transcript, callDuration, hasRecognition,
                       recRunning, timerRef, intervals, errorLog, probe>>

(* Due timeouts run in any order, whatever the order they were set in. *)
DueInAnyOrder(i) == timeouts[i].left = 0

(* A pending timeout whose delay has elapsed runs and is removed. Timeouts  *)
(* of the same delay run in the order they were set.                        *)
Due(i) ==
    /\ timeouts[i].left = 0
    /\ \A j \in 1..(i - 1) : ~(timeouts[j].kind = timeouts[i].kind /\ timeouts[j].left = 0)

FireConnect ==
    \E i \in DOMAIN timeouts :
        /\ Due(i) /\ timeouts[i].kind = "connect"
        /\ timeouts' = Remove(timeouts, i)
        /\ ConnectCallback

FireEnd ==
    \E i \in DOMAIN timeouts :
        /\ Due(i) /\ timeouts[i].kind = "end"
        /\ timeouts' = Remove(timeouts, i)
        /\ EndCallback

FireReply ==
    \E i \in DOMAIN timeouts :
        /\ Due(i) /\ timeouts[i].kind = "reply"
        /\ timeouts' = Remove(timeouts, i)
        /\ ReplyCallback(timeouts[i].text)

(* The callback of setInterval, lines 78-80: setCallDuration(prev => prev + 1). *)
FireInterval ==
    \E i \in DOMAIN intervals :
        /\ intervals[i].left = 0
        /\ callDuration' = (IF callDuration < MaxDuration THEN callDuration + 1 ELSE callDuration)
        /\ intervals' = [intervals EXCEPT ![i].left = Ticks(IntervalPeriod)]
        /\ UNCHANGED <<callStatus, messages, isRecording, transcript, hasRecognition,
                       recRunning, timerRef, timeouts, errorLog, probe>>

(* One tick of time passes once every timer that is due has run. *)
Tick ==
    /\ \A i \in DOMAIN timeouts : timeouts[i].left > 0
    /\ \A i \in DOMAIN intervals : intervals[i].left > 0
    /\ timeouts' = [i \in DOMAIN timeouts |-> [timeouts[i] EXCEPT !.left = @ - 1]]
    /\ intervals' = [i \in DOMAIN intervals |-> [intervals[i] EXCEPT !.left = @ - 1]]
    /\ UNCHANGED <<callStatus, messages, isRecording, transcript, callDuration,
                   hasRecognition, recRunning, timerRef, errorLog, probe>>

(* The loop of onresult, lines 36-46. *)
RECURSIVE finalTranscript(_)
finalTranscript(results) ==
    IF results = <<>> THEN ""
    ELSE (IF Head(results).isFinal THEN Head(results).transcript \o " " ELSE "")
           \o finalTranscript(Tail(results))

RECURSIVE interimTranscript(_)
interimTranscript(results) ==
    IF results = <<>> THEN ""
    ELSE (IF Head(results).isFinal THEN "" ELSE Head(results).transcript)
           \o interimTranscript(Tail(results))

(* handleUserSpeech, lines 116-125. *)
handleUserSpeech(text) ==
    /\ transcript' = ""
    /\ messages' = addMessage(messages, "user", text)
    /\ timeouts' = Append(timeouts, Timeout("reply", ReplyDelay, text))

(* recognitionRef.current.onresult, lines 35-53; the recognizer reports     *)
(* results only while it is started.                                        *)
OnResult ==
    \E event \in Events :
        /\ recRunning
        /\ IF finalTranscript(event) # ""
           THEN /\ Len(timeouts) < MaxTimeouts
                /\ Len(messages) + Pending("reply") + 2 <= MaxMsgs
                /\ handleUserSpeech(trim(finalTranscript(event)))
           ELSE /\ transcript' = interimTranscript(event)
                /\ UNCHANGED <<messages, timeouts>>
        /\ UNCHANGED <<callStatus, isRecording, callDuration, hasRecognition, recRunning,
                       timerRef, intervals, errorLog, probe>>

(* An onerror that also hangs up. *)
OnErrorHangsUp ==
    /\ recRunning
    /\ errorLog < MaxErrors
    /\ errorLog' = errorLog + 1
    /\ callStatus' = "ended"
    /\ UNCHANGED <<messages, isRecording, transcript, callDuration,
                   hasRecognition, recRunning, timerRef, intervals,
                   timeouts, probe>>

(* recognitionRef.current.onerror, lines 55-57: console.error only. *)
OnError ==
    /\ recRunning
    /\ errorLog < MaxErrors
    /\ errorLog' = errorLog + 1
    /\ UNCHANGED <<callStatus, messages, isRecording, transcript, callDuration,
                   hasRecognition, recRunning, timerRef, intervals,
                   timeouts, probe>>

Next ==
    \/ StartCall
    \/ EndCall
    \/ FireConnect
    \/ FireEnd
    \/ FireReply
    \/ FireInterval
    \/ Tick
    \/ OnResult
    \/ OnError

Spec == Init /\ [][Next]_vars

(* The event loop runs every timer that is due, and time passes. *)
FairSpec ==
    /\ Spec
    /\ WF_vars(Tick)
    /\ WF_vars(FireConnect)
    /\ WF_vars(FireEnd)
    /\ WF_vars(FireReply)
    /\ WF_vars(FireInterval)

-----------------------------------------------------------------------------
(* generateResponse on its own: the input text is drawn from GenInputs,    *)
(* the clock moves between evaluations.                                    *)

GenInputs ==
    {"", "ok", "Hi there", "HELLO", "this", "Which weather", "How Are You",
     "I need an appointment", "my Schedule", "weather", "Help me", "thank you bye",
     "THANKS and BYE", "bye", "Goodbye", "your name", "what time is it",
     "name the time", "the date", "Date and Time", "UPDATE", "thank you for the appointment"}

InitGen ==
    /\ callStatus = "idle"
    /\ messages = <<>>
    /\ isRecording = FALSE
    /\ transcript = ""
    /\ callDuration = 0
    /\ hasRecognition = FALSE
    /\ recRunning = FALSE
    /\ timerRef = 0
    /\ intervals = <<>>
    /\ timeouts = <<>>
    /\ errorLog = 0
    /\ probe \in {[NoProbe EXCEPT !.text = t, !.now = c] : t \in GenInputs, c \in Clock}

(* The clock takes another value. *)
ClockChange ==
    /\ \E c \in Clock \ {probe.now} : probe' = [probe EXCEPT !.now = c]
    /\ UNCHANGED sessionVars
    /\ UNCHANGED errorLog

(* const response = generateResponse(text), line 121, at the present clock. *)
Evaluate ==
    /\ probe' = [probe EXCEPT !.evals = (IF @ < 2 THEN @ + 1 ELSE @),
                              !.prevOut = probe.out, !.prevAt = probe.outAt,
                              !.out = generateResponse(probe.text, probe.now),
                              !.outAt = probe.now]
    /\ UNCHANGED sessionVars
    /\ UNCHANGED errorLog

NextGen ==
    \/ ClockChange
    \/ Evaluate

SpecGen == InitGen /\ [][NextGen]_vars

-----------------------------------------------------------------------------
(* formatDuration on its own: the probe holds a call duration and the text *)
(* rendered for it, {formatDuration(callDuration)} of the call header.     *)

InitFmt ==
    /\ callStatus = "idle"
    /\ messages = <<>>
    /\ isRecording = FALSE
    /\ transcript = ""
    /\ callDuration = 0
    /\ hasRecognition = FALSE
    /\ recRunning = FALSE
    /\ timerRef = 0
    /\ intervals = <<>>
    /\ timeouts = <<>>
    /\ errorLog = 0
    /\ probe \in [seconds : 0..MaxSeconds, out : {""}]

Render ==
    /\ probe' = [probe EXCEPT !.out = formatDuration(probe.seconds)]
    /\ UNCHANGED sessionVars
    /\ UNCHANGED errorLog

NextFmt == Render

SpecFmt == InitFmt /\ [][NextFmt]_vars

-----------------------------------------------------------------------------
(* Properties. *)

GreetingMessage == Message("assistant", Greeting)

DocumentedEdges ==
    {<<"idle", "connecting">>, <<"connecting", "active">>, <<"connecting", "ended">>,
     <<"active", "ended">>, <<"ended", "idle">>}

(* C1: every change of callStatus is one of the documented edges           *)
(* idle->connecting, connecting->active, connecting->ended, active->ended, *)
(* ended->idle.                                                            *)
C1_OnlyDocumentedEdges ==
    [][callStatus' # callStatus => <<callStatus, callStatus'>> \in DocumentedEdges]_vars

(* C2: the message list changes only in steps that leave the status        *)
(* active; nothing is appended while the status is idle or ended.          *)
C2_AppendOnlyWhileActive ==
    [][messages' # messages => callStatus' = "active"]_vars

(* C3: when the status becomes active the list is exactly the greeting,    *)
(* and from that list the only change is the append of a user message.     *)
C3_GreetingUntilUtterance ==
    [][/\ (callStatus # "active" /\ callStatus' = "active") => messages' = <<GreetingMessage>>
       /\ (messages = <<GreetingMessage>> /\ messages' # messages)
            => (/\ Len(messages') = 2
                /\ messages'[1] = GreetingMessage
                /\ messages'[2].role = "user")]_vars

(* C4: at the moment startCall runs (idle -> connecting) the message list  *)
(* and the interim transcript hold nothing of what came before.            *)
C4_RestartCarriesNothing ==
    [][(callStatus = "idle" /\ callStatus' = "connecting")
         => (messages' = <<>> /\ transcript' = "")]_vars

(* C5: with the status ended or idle, listening is off and no duration     *)
(* timer is live.                                                          *)
C5_StoppedAfterEnd ==
    callStatus \in {"ended", "idle"}
        => (~isRecording /\ ~recRunning /\ timerRef = 0 /\ intervals = <<>>)

(* C6: at most one recurring duration timer is live at any time, and       *)
(* exactly one while the call is active.                                   *)
C6_SingleDurationTimer ==
    /\ Len(intervals) <= 1
    /\ callStatus = "active" => Len(intervals) = 1

PendingIn(ts, kind) == Cardinality({i \in DOMAIN ts : ts[i].kind = kind})

(* C7: a step that schedules a reply is handleUserSpeech of one utterance: *)
(* it appends that utterance as one user message and clears the interim    *)
(* transcript. A pending reply leaves the timers only by running, whatever *)
(* the status is by then, and running appends exactly one assistant        *)
(* message, generateResponse of its utterance. Every pending reply runs.   *)
C7_UtteranceThenReply ==
    /\ [][/\ PendingIn(timeouts', "reply") > PendingIn(timeouts, "reply")
            => (/\ Len(timeouts') = Len(timeouts) + 1
                /\ timeouts' = Append(timeouts,
                       Timeout("reply", ReplyDelay, timeouts'[Len(timeouts')].text))
                /\ messages' = Append(messages,
                       Message("user", timeouts'[Len(timeouts')].text))
                /\ transcript' = "")
          /\ PendingIn(timeouts', "reply") < PendingIn(timeouts, "reply")
            => \E i \in DOMAIN timeouts :
                   /\ timeouts[i].kind = "reply"
                   /\ timeouts[i].left = 0
                   /\ timeouts' = Remove(timeouts, i)
                   /\ \E now \in Clock :
                          messages' = Append(messages,
                              Message("assistant", generateResponse(timeouts[i].text, now)))]_vars
    /\ (PendingIn(timeouts, "reply") > 0) ~> (PendingIn(timeouts, "reply") = 0)

(* The reply to an utterance was appended after the call had ended. *)
C7_Witness ==
    /\ callStatus = "ended"
    /\ Len(messages) >= 3
    /\ messages[Len(messages) - 1] = Message("user", "Hi")
    /\ messages[Len(messages)] = Message("assistant", generateResponse("Hi", Epoch))
    /\ PendingIn(timeouts, "reply") = 0

toUpperChar(c) ==
    IF \E i \in 1..Len(LowerAlpha) : CharAt(LowerAlpha, i) = c
    THEN CharAt(UpperAlpha, CHOOSE i \in 1..Len(LowerAlpha) : CharAt(LowerAlpha, i) = c)
    ELSE c

RECURSIVE toUpperCase(_)
toUpperCase(s) ==
    IF Len(s) = 0 THEN ""
    ELSE toUpperChar(CharAt(s, 1)) \o toUpperCase(SubSeq(s, 2, Len(s)))

(* The rules in their canonical order, each with its keywords. *)
RuleOrder ==
    <<"greeting", "well-being", "appointment", "weather", "help",
      "thanks", "farewell", "identity", "time", "date">>

Keywords(rule) ==
    CASE rule = "greeting"    -> {"hello", "hi"}
      [] rule = "well-being"  -> {"how are you"}
      [] rule = "appointment" -> {"appointment", "schedule"}
      [] rule = "weather"     -> {"weather"}
      [] rule = "help"        -> {"help"}
      [] rule = "thanks"      -> {"thank"}
      [] rule = "farewell"    -> {"bye", "goodbye"}
      [] rule = "identity"    -> {"name"}
      [] rule = "time"        -> {"time"}
      [] rule = "date"        -> {"date"}

(* A keyword of the rule is a substring of the (lower-cased) text. *)
RuleMatches(rule, lowered) == \E k \in Keywords(rule) : includes(lowered, k)

(* The first rule of the order with a keyword in the lower-cased text,     *)
(* "fallback" if none.                                                     *)
FirstRule(text) ==
    LET lowered == toLowerCase(text)
        matching == {i \in DOMAIN RuleOrder : RuleMatches(RuleOrder[i], lowered)}
    IN  IF matching = {} THEN "fallback"
        ELSE RuleOrder[CHOOSE i \in matching : \A j \in matching : i <= j]

ReplyOfRule(rule, now) ==
    CASE rule = "greeting"    -> GreetingReply
      [] rule = "well-being"  -> WellBeingReply
      [] rule = "appointment" -> AppointmentReply
      [] rule = "weather"     -> WeatherReply
      [] rule = "help"        -> HelpReply
      [] rule = "thanks"      -> ThanksReply
      [] rule = "farewell"    -> FarewellReply
      [] rule = "identity"    -> IdentityReply
      [] rule = "time"        -> TimeReply(now)
      [] rule = "date"        -> DateReply(now)
      [] rule = "fallback"    -> FallbackReply

(* C8: the reply is that of the first rule, in the canonical order, with a *)
(* keyword in the lower-cased input, the fallback when none matches; the   *)
(* thanks rule beats the farewell rule; the letter case of the input does  *)
(* not matter.                                                             *)
C8_FirstRuleWins ==
    probe.evals > 0 =>
        /\ probe.out = ReplyOfRule(FirstRule(probe.text), probe.outAt)
        /\ (/\ RuleMatches("thanks", toLowerCase(probe.text))
            /\ RuleMatches("farewell", toLowerCase(probe.text)))
              => probe.out # FarewellReply
        /\ generateResponse(toUpperCase(probe.text), probe.outAt) = probe.out
        /\ generateResponse(toLowerCase(probe.text), probe.outAt) = probe.out

(* An input in capitals with both "thank" and "bye" got the thanks reply. *)
C8_Witness ==
    /\ probe.evals > 0
    /\ probe.text = "THANKS and BYE"
    /\ probe.out = ThanksReply

(* C9 as stated: two evaluations of the same input give the same reply,    *)
(* whatever the clock was at each.                                         *)
C9_SameReplyAlways ==
    probe.evals = 2 => probe.out = probe.prevOut

(* C9: two evaluations of the same input give the same reply, unless the   *)
(* input is resolved by the time or the date rule and the clock differed.  *)
C9_SameReplyUnlessClockRule ==
    probe.evals = 2 =>
        \/ probe.out = probe.prevOut
        \/ /\ FirstRule(probe.text) \in {"time", "date"}
           /\ probe.outAt # probe.prevAt

(* The same input was evaluated at two clock values and, not being a time  *)
(* or date question, got the same reply.                                   *)
C9_Witness ==
    /\ probe.evals = 2
    /\ probe.outAt.sec # probe.prevAt.sec
    /\ probe.outAt.day # probe.prevAt.day
    /\ probe.text = "your name"
    /\ probe.out = IdentityReply
    /\ probe.prevOut = IdentityReply

(* C10: a step of the onerror handler (the only one that writes to the     *)
(* console) leaves the status, the messages, the transcript, the duration, *)
(* the recording flag and every pending timer as they were.                *)
C10_ErrorChangesNothing ==
    [][errorLog' # errorLog => UNCHANGED sessionVars]_vars

(* An error was logged during an active call with a live timer. *)
C10_Witness ==
    /\ errorLog > 0
    /\ callStatus = "active"
    /\ isRecording
    /\ intervals # <<>>

(* C11: without a recognizer (recognitionRef null) startCall takes the     *)
(* status from idle to connecting and the connect callback makes it        *)
(* active, resets callDuration, starts the duration timer and leaves the   *)
(* list at the greeting; isRecording stays false and no user message is    *)
(* ever appended; endCall makes the status ended and its callback idle.    *)
C11_NoRecognizerCallProceeds ==
    [][~hasRecognition =>
         /\ ~isRecording' /\ ~recRunning'
         /\ \A i \in DOMAIN messages' : messages'[i].role # "user"
         /\ PendingIn(timeouts', "connect") > PendingIn(timeouts, "connect")
              => (callStatus = "idle" /\ callStatus' = "connecting")
         /\ PendingIn(timeouts', "connect") < PendingIn(timeouts, "connect")
              => (/\ callStatus' = "active"
                  /\ callDuration' = 0
                  /\ timerRef' # 0
                  /\ \E i \in DOMAIN intervals' :
                         /\ intervals'[i].id = timerRef'
                         /\ intervals'[i].left = Ticks(IntervalPeriod)
                  /\ messages' = <<GreetingMessage>>)
         /\ PendingIn(timeouts', "end") > PendingIn(timeouts, "end")
              => (callStatus' = "ended" /\ timerRef' = 0)
         /\ PendingIn(timeouts', "end") < PendingIn(timeouts, "end")
              => callStatus' = "idle"]_vars

(* Without a recognizer a call was started, connected, counted a second,   *)
(* was ended and came back to idle.                                        *)
C11_Witness ==
    /\ ~hasRecognition
    /\ callStatus = "idle"
    /\ messages = <<GreetingMessage>>
    /\ callDuration > 0
    /\ ~isRecording
    /\ intervals = <<>>
    /\ timeouts = <<>>

(* C12: every endCall leaves the status ended, isRecording false and       *)
(* timerRef null, whether or not listening and the timer were running, and *)
(* a further endCall adds nothing to that: one return to idle is pending.  *)
C12_EndCallIdempotent ==
    [][PendingIn(timeouts', "end") > PendingIn(timeouts, "end")
         => (/\ callStatus' = "ended"
             /\ ~isRecording'
             /\ timerRef' = 0
             /\ PendingIn(timeouts', "end") = 1)]_vars

(* C13: the transcript buffer is empty right after a final utterance is    *)
(* committed (the step that schedules its reply), and it is empty in every *)
(* state whose callStatus is idle.                                         *)
C13_TranscriptClearedWhenIdle ==
    [][/\ PendingIn(timeouts', "reply") > PendingIn(timeouts, "reply")
            => transcript' = ""
       /\ callStatus' = "idle" => transcript' = ""]_vars

(* C14: every ended session is eventually reset: whenever callStatus is    *)
(* ended then, given that pending timers fire, callStatus eventually is    *)
(* idle, the status in which startCall is offered.                         *)
C14_EndedLeadsToIdle ==
    (callStatus = "ended") ~> (callStatus = "idle")

(* An idle session that has been through a call with a recognizer: time    *)
(* was counted, listening is stopped and no timer is left.                 *)
C14_Witness ==
    /\ callStatus = "idle"
    /\ hasRecognition
    /\ callDuration > 0
    /\ ~recRunning
    /\ ~isRecording
    /\ timerRef = 0
    /\ timeouts = <<>>
    /\ intervals = <<>>

(* Reading a decimal numeral back. *)
IsNumeral(s) ==
    /\ Len(s) > 0
    /\ \A i \in 1..Len(s) : \E d \in 1..Len(Digits) : CharAt(Digits, d) = CharAt(s, i)

DigitValue(c) == (CHOOSE d \in 1..Len(Digits) : CharAt(Digits, d) = c) - 1

RECURSIVE ParseNat(_)
ParseNat(s) ==
    IF Len(s) = 0 THEN 0
    ELSE ParseNat(SubSeq(s, 1, Len(s) - 1)) * 10 + DigitValue(CharAt(s, Len(s)))

(* C15: the text rendered for s seconds is a minutes numeral, a colon and  *)
(* a seconds numeral; the minutes read back as s div 60 and the seconds as *)
(* s mod 60, which lies in 0..59; each numeral is padded with zeros to two *)
(* digits and no further; minutes are not rolled over into hours; and 0,   *)
(* 65 and 3661 seconds give "00:00", "01:05" and "61:01".                  *)
C15_MinutesAndSeconds ==
    probe.out # "" =>
        LET s == probe.seconds
            out == probe.out
            n == Len(out)
            k == CHOOSE i \in 1..n :
                     /\ CharAt(out, i) = ":"
                     /\ \A j \in 1..(i - 1) : CharAt(out, j) # ":"
            minStr == SubSeq(out, 1, k - 1)
            secStr == SubSeq(out, k + 1, n)
        IN  /\ \E i \in 1..n : CharAt(out, i) = ":"
            /\ IsNumeral(minStr)
            /\ IsNumeral(secStr)
            /\ Len(minStr) >= 2
            /\ Len(minStr) > 2 => CharAt(minStr, 1) # "0"
            /\ Len(secStr) = 2
            /\ ParseNat(minStr) = s \div 60
            /\ ParseNat(secStr) = s % 60
            /\ ParseNat(secStr) \in 0..59
            /\ ParseNat(minStr) * 60 + ParseNat(secStr) = s
            /\ s = 0 => out = "00:00"
            /\ s = 65 => out = "01:05"
            /\ s = 3661 => out = "61:01"

(* More than an hour has been rendered. *)
C15_Witness ==
    /\ probe.seconds = 3661
    /\ probe.out = "61:01"

IsPrefix(s, t) == Len(s) <= Len(t) /\ SubSeq(t, 1, Len(s)) = s

(* C16: the message list is append-only between resets. The one step that  *)
(* does not keep the previous list as a prefix is the reset of a call that *)
(* becomes active; a committed utterance appends exactly its user message, *)
(* a reply timer exactly its assistant message, and no other step changes  *)
(* the list.                                                               *)
C16_AppendOnlyBetweenResets ==
    [][/\ \/ IsPrefix(messages, messages')
          \/ /\ callStatus # "active"
             /\ callStatus' = "active"
             /\ messages' = <<GreetingMessage>>
       /\ PendingIn(timeouts', "reply") > PendingIn(timeouts, "reply")
            => /\ Len(messages') = Len(messages) + 1
               /\ IsPrefix(messages, messages')
               /\ messages'[Len(messages')].role = "user"
       /\ PendingIn(timeouts', "reply") < PendingIn(timeouts, "reply")
            => /\ Len(messages') = Len(messages) + 1
               /\ IsPrefix(messages, messages')
               /\ messages'[Len(messages')].role = "assistant"
       /\ (/\ PendingIn(timeouts', "reply") = PendingIn(timeouts, "reply")
           /\ PendingIn(timeouts', "connect") >= PendingIn(timeouts, "connect"))
            => messages' = messages]_vars

OldestReply(ts) ==
    CHOOSE i \in DOMAIN ts :
        /\ ts[i].kind = "reply"
        /\ \A j \in 1..(i - 1) : ts[j].kind # "reply"

(* C17: replies are appended in the order of the utterances that caused    *)
(* them. A committed utterance puts its reply timer behind every pending   *)
(* one, and the reply timer that runs is the oldest pending one: it        *)
(* appends the reply to its own utterance.                                 *)
C17_RepliesInUtteranceOrder ==
    [][/\ PendingIn(timeouts', "reply") > PendingIn(timeouts, "reply")
            => /\ Len(messages') > 0
               /\ messages'[Len(messages')].role = "user"
               /\ timeouts' = Append(timeouts,
                                     Timeout("reply", ReplyDelay,
                                             messages'[Len(messages')].content))
       /\ PendingIn(timeouts', "reply") < PendingIn(timeouts, "reply")
            => /\ timeouts' = Remove(timeouts, OldestReply(timeouts))
               /\ \E now \in Clock :
                      messages' = Append(messages,
                          Message("assistant",
                                  generateResponse(timeouts[OldestReply(timeouts)].text, now)))]_vars

(* Two utterances less than 500 ms apart: both user messages come before   *)
(* both replies.                                                           *)
C17_Witness ==
    /\ Len(messages) = 5
    /\ messages[1] = GreetingMessage
    /\ messages[2].role = "user"
    /\ messages[3].role = "user"
    /\ messages[2].content # messages[3].content
    /\ messages[4] = Message("assistant", GreetingReply)
    /\ messages[5] = Message("assistant", GreetingReply)
    /\ PendingIn(timeouts, "reply") = 0

Count(role, n) == Cardinality({i \in 1..n : messages[i].role = role})

(* C18: the message list holds no orphan reply. Every assistant message    *)
(* after the first position has, before it, at least as many user messages *)
(* as there are replies up to and including it, so the assistant messages  *)
(* number at most the user messages plus one (the greeting).               *)
C18_NoOrphanReply ==
    /\ \A i \in 2..Len(messages) :
           messages[i].role = "assistant"
               => Count("user", i) >= Count("assistant", i) - 1
    /\ Count("assistant", Len(messages)) <= Count("user", Len(messages)) + 1

====
